---- MODULE Spec2Model ----
(***************************************************************************)
(* Model of the Delta Lake writer service (src/delta-writer/writer.py):    *)
(* the normalizer parse_event, the table writer write_batch_to_delta, the  *)
(* connection probe wait_for_kafka and the consume loop of main, together  *)
(* with the broker (topic, consumer position, committed group offset) and  *)
(* the table store they act on.                                            *)
(***************************************************************************)
EXTENDS Integers, Sequences, FiniteSets, TLC

VARIABLES
    pc,                     \* where main() is: see the actions below
    attempt,                \* wait_for_kafka: loop variable of range(max_retries)
    topic,                  \* broker: the messages of KAFKA_TOPIC, at offsets 1..Len(topic)
    position,               \* consumer: number of messages handed out by the iterator
    committed,              \* broker: committed offset of KAFKA_GROUP_ID (messages 1..committed)
    cur,                    \* main: offset of `message`, the loop variable (0: none)
    batch,                  \* main: `batch`, as the offsets of the messages the events came from
    last_batch_time,        \* main: `last_batch_time`
    now,                    \* time.time(), in seconds
    BATCH_SIZE,             \* int(os.getenv('BATCH_SIZE', '100'))
    BATCH_TIMEOUT_SECONDS,  \* int(os.getenv('BATCH_TIMEOUT_SECONDS', '10'))
    table,                  \* table store: the appended batches, in commit order
    calls,                  \* this run's calls of write_batch_to_delta, in call order
    sigs,                   \* this run's delivered SIGINTs (KeyboardInterrupt)
    sigpc,                  \* where the first KeyboardInterrupt of this run was raised
    cause,                  \* why main left its normal course: "none", "signal" and "error"
                            \* (consume loop left), "unavailable" (wait_for_kafka False)
    exitCode,               \* exit status of the process (-1 while it runs)
    closed,                 \* consumer.close() has been executed in this run
    restarts,               \* number of times the process was started again
    norm_in,                \* normalizer: the raw message given to parse_event (<<>>: none)
    norm_out,               \* normalizer: what parse_event returned (<<>>: not called)
    norm_again,             \* normalizer: parse_event of norm_out read back as a message
    df_value,               \* table writer: df['interaction_value'] of the row of norm_out
    cli_args,               \* CLI: the arguments given to `docker compose` (<<>>: none yet)
    cli_rc,                 \* CLI: exit status of the docker compose command (-1: none)
    cli_ret,                \* CLI: what the DockerManager method returned
    cli_exit                \* CLI: exit status of the analytics-platform command (-1: none)

vars == <<pc, attempt, topic, position, committed, cur, batch, last_batch_time, now,
          BATCH_SIZE, BATCH_TIMEOUT_SECONDS, table, calls, sigs, sigpc, cause,
          exitCode, closed, restarts, norm_in, norm_out, norm_again, df_value,
          cli_args, cli_rc, cli_ret, cli_exit>>

----------------------------------------------------------------------------
(* Bounds of the model *)

MaxMsgs == 3            \* messages in the topic
MaxBatchSize == 3       \* largest configured BATCH_SIZE
MaxBatchTimeout == 2    \* largest configured BATCH_TIMEOUT_SECONDS
MaxTime == 3            \* the clock stops ticking here
MaxSignals == 1         \* SIGINTs delivered to one run
MaxRestarts == 1        \* restarts of the process
MaxFields == 2          \* fields present in a normalizer input object
MaxServices == 2        \* services named in one --services option

(* wait_for_kafka: max_retries *)
max_retries == 30

----------------------------------------------------------------------------
(* JSON values.  A string is a sequence of tokens, so that str.replace,    *)
(* datetime.fromisoformat / isoformat and json.dumps are conversions.      *)

Absent == [t |-> "absent", v |-> <<>>]        \* key not in the dict
Null == [t |-> "null", v |-> <<>>]            \* JSON null / Python None
Str(s) == [t |-> "str", v |-> s]
Num(s) == [t |-> "num", v |-> s]
Dict(s) == [t |-> "dict", v |-> s]
List(s) == [t |-> "list", v |-> s]
Bool(s) == [t |-> "bool", v |-> s]

string_fields == {"channel", "platform", "event_type", "event_category",
                  "resource_id", "resource_title", "interaction_target",
                  "session_id", "user_id", "device_id", "user_agent",
                  "client_version", "interaction_text"}

Fields == string_fields \cup {"timestamp", "interaction_value", "metadata"}

EmptyObj == [f \in Fields |-> Absent]

(* A raw message: message.value.  kind says what decode + json.loads make   *)
(* of the bytes; obj is the parsed dict when kind = "object".               *)
RawKinds == {"object", "undecodable", "invalid_json", "array", "number", "string",
             "boolean", "null"}

Raw(kind, obj) == [kind |-> kind, obj |-> obj]

(* parse_event's result: ok = FALSE is None. *)
None == [ok |-> FALSE, ev |-> EmptyObj]
Event(ev) == [ok |-> TRUE, ev |-> ev]

(* bool(x) of a JSON value *)
Truthy(x) ==
    CASE x.t \in {"absent", "null"} -> FALSE
      [] x.t = "num" -> x.v # <<"0">>
      [] x.t = "bool" -> x.v = <<"true">>
      [] OTHER -> x.v # <<>>

(* line 75 without the replace: the text goes to fromisoformat as it is *)
ReplaceZ_missing(s) == s

(* s.replace('Z', '+00:00') *)
ReplaceZ(s) == [i \in 1..Len(s) |-> IF s[i] = "Z" THEN "+00:00" ELSE s[i]]

DateTimeTokens == {"2024-12-31T10:00:00"}
DateTokens == {"2024-12-31"}
OffsetTokens == {"+00:00", "+02:00"}

(* datetime.utcnow().isoformat(): a naive date-time, here the clock reading *)
UtcNowIso(clock) == <<"clock", ToString(clock)>>

IsNaive(s) ==
    \/ Len(s) = 1 /\ s[1] \in DateTimeTokens \cup DateTokens
    \/ Len(s) = 2 /\ s[1] \in DateTokens /\ s[2] = "T00:00:00"
    \/ Len(s) = 2 /\ s[1] = "clock"

(* datetime.fromisoformat accepts s *)
IsIso(s) ==
    \/ IsNaive(s)
    \/ Len(s) >= 2 /\ IsNaive(SubSeq(s, 1, Len(s) - 1)) /\ s[Len(s)] \in OffsetTokens
                   /\ ~(Len(s) = 2 /\ s[1] \in DateTokens)

(* datetime.fromisoformat(s).isoformat(): a date alone gets its midnight *)
IsoFormat(s) ==
    IF Len(s) = 1 /\ s[1] \in DateTokens THEN <<s[1], "T00:00:00">> ELSE s

(* json.dumps of a dict or list *)
Dumps(x) ==
    IF x.t = "dict" THEN Str(<<"{">> \o x.v \o <<"}">>)
    ELSE Str(<<"[">> \o x.v \o <<"]">>)

(* lines 73-81 *)
NormTimestamp(ts, clock) ==
    IF ts.t # "absent" /\ Truthy(ts)
    THEN IF ts.t = "str" /\ IsIso(ReplaceZ(ts.v))
         THEN Str(IsoFormat(ReplaceZ(ts.v)))
         ELSE Str(UtcNowIso(clock))
    ELSE Str(UtcNowIso(clock))

(* dict.setdefault(key, default) *)
setdefault(x, default) == IF x.t = "absent" THEN default ELSE x

(* lines 84-97: the default of each field *)
DefaultOf(f) ==
    CASE f \in {"channel", "event_type"} -> Str(<<"unknown">>)
      [] f = "interaction_value" -> Null
      [] OTHER -> Str(<<>>)

(* lines 100-103 with isinstance(..., dict) alone: a list is not serialized *)
NormMetadata_dict_only(m) ==
    IF m.t = "dict" THEN Dumps(m) ELSE Str(<<"{", "}">>)

(* lines 100-103 *)
NormMetadata(m) ==
    IF m.t # "absent" /\ m.t \in {"dict", "list"} THEN Dumps(m) ELSE Str(<<"{", "}">>)

(* parse_event(message) with time.time() = clock *)
parse_event(raw, clock) ==
    IF raw.kind # "object"
    THEN None
    ELSE Event([f \in Fields |->
                  CASE f = "timestamp" -> NormTimestamp(raw.obj[f], clock)
                    [] f = "metadata" -> NormMetadata(raw.obj[f])
                    [] OTHER -> setdefault(raw.obj[f], DefaultOf(f))])

----------------------------------------------------------------------------
(* The ingest process: main() and what it calls *)

(* Messages the topic of the ingest runs may hold: a well-formed event     *)
(* (the sample_event of test_event_parsing) and bytes that are no JSON.     *)
GoodMsg ==
    Raw("object", [f \in Fields |->
        CASE f = "timestamp" -> Str(<<"2024-12-31T10:00:00", "Z">>)
          [] f = "metadata" -> Dict(<<"page_section">>)
          [] f \in {"channel", "platform", "event_type", "event_category", "resource_id",
                    "resource_title", "interaction_target", "session_id", "user_id"}
               -> Str(<<f>>)
          [] OTHER -> Absent])

BadMsg == Raw("invalid_json", EmptyObj)

(* the topic holds its messages by name; MessageValue is message.value *)
TopicMsgs == {"event", "garbage"}

MessageValue(m) == IF m = "event" THEN GoodMsg ELSE BadMsg

Topics == UNION {[1..n -> TopicMsgs] : n \in 0..MaxMsgs}

Running == {"connecting", "create_consumer", "consuming", "parse", "check", "flush",
            "flushed", "finally", "drain", "close"}

(* the statements inside main's try block, lines 175-188 *)
InTry == {"consuming", "parse", "check", "flush", "flushed"}

(* line 182 with > for >= *)
batch_full_gt(b) == Len(b) > BATCH_SIZE

(* line 182 *)
batch_full(b) == Len(b) >= BATCH_SIZE

(* line 183 never true: only the size triggers a flush *)
batch_timeout_never(clock) == FALSE

(* line 183 *)
batch_timeout(clock) == (clock - last_batch_time) >= BATCH_TIMEOUT_SECONDS

(* line 196 never taken: the remaining events are not written *)
has_remaining_never(b) == FALSE

(* line 196: `if batch:` *)
has_remaining(b) == b # <<>>

(* line 178 taken for None too: a rejected message is buffered *)
is_event_always(e) == TRUE

(* line 178: `if event:`; the dict parse_event returns is never empty *)
is_event(e) == e.ok

Call(events, ok, at) == [batch |-> events, ok |-> ok, at |-> at]

(* line 132 with mode='overwrite': the batch replaces the table *)
write_batch_overwrite(events, ok) ==
    IF events = <<>> THEN table
    ELSE IF ok THEN <<events>>
    ELSE table

(* write_batch_to_delta(events), lines 110-141: the table after the call,   *)
(* where ok says whether write_deltalake committed the append.              *)
write_batch_to_delta(events, ok) ==
    IF events = <<>> THEN table
    ELSE IF ok THEN Append(table, events)
    ELSE table

(* lines 139-141 without the raise: the error is only logged *)
write_raises_never(events, ok) == FALSE

(* write_batch_to_delta(events) raises: lines 139-141 *)
write_raises(events, ok) == events # <<>> /\ ~ok

Init ==
    /\ pc = "connecting"
    /\ attempt = 0
    /\ topic \in Topics
    /\ position = 0
    /\ committed = 0
    /\ cur = 0
    /\ batch = <<>>
    /\ last_batch_time = 0
    /\ now = 0
    /\ BATCH_SIZE \in 1..MaxBatchSize
    /\ BATCH_TIMEOUT_SECONDS \in 1..MaxBatchTimeout
    /\ table = <<>>
    /\ calls = <<>>
    /\ sigs = 0
    /\ sigpc = "none"
    /\ cause = "none"
    /\ exitCode = -1
    /\ closed = FALSE
    /\ restarts = 0
    /\ norm_in = <<>>
    /\ norm_out = <<>>
    /\ norm_again = <<>>
    /\ df_value = <<>>
    /\ cli_args = <<>>
    /\ cli_rc = -1
    /\ cli_ret = "none"
    /\ cli_exit = -1

norm_vars == <<norm_in, norm_out, norm_again, df_value>>
cli_vars == <<cli_args, cli_rc, cli_ret, cli_exit>>
config_vars == <<topic, BATCH_SIZE, BATCH_TIMEOUT_SECONDS, restarts>>

(* line 48 with one pass too many: range(max_retries + 1) *)
more_attempts_off_by_one(a) == a < max_retries

(* lines 48 and 60: range(max_retries) has a value after a *)
more_attempts(a) == a < max_retries - 1

(* wait_for_kafka, lines 48-65: one pass of the loop; on the last failed    *)
(* pass it returns False and main returns (lines 153-155).  `attempt` is a  *)
(* local of wait_for_kafka: it is gone (0) once the function has returned.  *)
ConnectAttempt ==
    /\ pc = "connecting"
    /\ \E connected \in BOOLEAN :
         IF connected
         THEN /\ pc' = "create_consumer"
              /\ attempt' = 0
              /\ UNCHANGED <<exitCode, cause>>
         ELSE IF more_attempts(attempt)
         THEN /\ attempt' = attempt + 1
              /\ UNCHANGED <<pc, exitCode, cause>>
         ELSE /\ pc' = "exited"
              /\ exitCode' = 0
              /\ cause' = "unavailable"
              /\ attempt' = 0
    /\ UNCHANGED <<position, committed, cur, batch, last_batch_time, now, table, calls,
                   sigs, sigpc, closed>>
    /\ UNCHANGED config_vars
    /\ UNCHANGED norm_vars
    /\ UNCHANGED cli_vars

(* lines 159-172: the consumer of the group starts at the committed offset  *)
(* (auto_offset_reset='earliest' when there is none); the constructor       *)
(* raises when no broker answers, outside any try.                          *)
CreateConsumer ==
    /\ pc = "create_consumer"
    /\ \E connected \in BOOLEAN :
         IF connected
         THEN /\ position' = committed
              /\ batch' = <<>>
              /\ last_batch_time' = now
              /\ pc' = "consuming"
              /\ UNCHANGED exitCode
         ELSE /\ pc' = "exited"
              /\ exitCode' = 1
              /\ UNCHANGED <<position, batch, last_batch_time>>
    /\ UNCHANGED <<attempt, committed, cur, now, table, calls, sigs, sigpc, cause, closed>>
    /\ UNCHANGED config_vars
    /\ UNCHANGED norm_vars
    /\ UNCHANGED cli_vars

(* line 175: the iterator hands out the next message *)
Fetch ==
    /\ pc = "consuming"
    /\ position < Len(topic)
    /\ cur' = position + 1
    /\ position' = position + 1
    /\ pc' = "parse"
    /\ UNCHANGED <<attempt, committed, batch, last_batch_time, now, table, calls, sigs,
                   sigpc, cause, exitCode, closed>>
    /\ UNCHANGED config_vars
    /\ UNCHANGED norm_vars
    /\ UNCHANGED cli_vars

(* line 164, enable_auto_commit=True: while the iterator polls, the         *)
(* consumer commits its position when the auto-commit interval has passed.  *)
AutoCommit ==
    /\ pc = "consuming"
    /\ committed # position
    /\ committed' = position
    /\ UNCHANGED <<pc, attempt, position, cur, batch, last_batch_time, now, table, calls,
                   sigs, sigpc, cause, exitCode, closed>>
    /\ UNCHANGED config_vars
    /\ UNCHANGED norm_vars
    /\ UNCHANGED cli_vars

(* line 175 raising (a broker error): caught at line 192 *)
IteratorError ==
    /\ pc = "consuming"
    /\ cause' = "error"
    /\ pc' = "finally"
    /\ UNCHANGED <<attempt, position, committed, cur, batch, last_batch_time, now, table,
                   calls, sigs, sigpc, exitCode, closed>>
    /\ UNCHANGED config_vars
    /\ UNCHANGED norm_vars
    /\ UNCHANGED cli_vars

(* lines 177-179 *)
Parse ==
    /\ pc = "parse"
    /\ LET event == parse_event(MessageValue(topic[cur]), now) IN
         IF is_event(event)
         THEN /\ batch' = Append(batch, cur)
              /\ pc' = "check"
         ELSE /\ pc' = "consuming"
              /\ UNCHANGED batch
    /\ UNCHANGED <<attempt, position, committed, cur, last_batch_time, now, table, calls,
                   sigs, sigpc, cause, exitCode, closed>>
    /\ UNCHANGED config_vars
    /\ UNCHANGED norm_vars
    /\ UNCHANGED cli_vars

(* lines 182-188 with the clock restarted by every absorb that does not flush *)
Check_restarts_clock ==
    /\ pc = "check"
    /\ IF batch_full(batch) \/ batch_timeout(now)
       THEN pc' = "flush" /\ UNCHANGED last_batch_time
       ELSE pc' = "consuming" /\ last_batch_time' = now
    /\ UNCHANGED <<attempt, position, committed, cur, batch, now, table,
                   calls, sigs, sigpc, cause, exitCode, closed>>
    /\ UNCHANGED config_vars
    /\ UNCHANGED norm_vars
    /\ UNCHANGED cli_vars

(* lines 182-185 *)
Check ==
    /\ pc = "check"
    /\ pc' = IF batch_full(batch) \/ batch_timeout(now) THEN "flush" ELSE "consuming"
    /\ UNCHANGED <<attempt, position, committed, cur, batch, last_batch_time, now, table,
                   calls, sigs, sigpc, cause, exitCode, closed>>
    /\ UNCHANGED config_vars
    /\ UNCHANGED norm_vars
    /\ UNCHANGED cli_vars

(* line 186: write_batch_to_delta(batch); its exception is caught at 192 *)
Flush ==
    /\ pc = "flush"
    /\ \E ok \in BOOLEAN :
         /\ table' = write_batch_to_delta(batch, ok)
         /\ calls' = Append(calls, Call(batch, ok, "loop"))
         /\ IF write_raises(batch, ok)
            THEN /\ cause' = "error"
                 /\ pc' = "finally"
            ELSE /\ pc' = "flushed"
                 /\ UNCHANGED cause
    /\ UNCHANGED <<attempt, position, committed, cur, batch, last_batch_time, now, sigs,
                   sigpc, exitCode, closed>>
    /\ UNCHANGED config_vars
    /\ UNCHANGED norm_vars
    /\ UNCHANGED cli_vars

(* lines 187-188 *)
Reset ==
    /\ pc = "flushed"
    /\ batch' = <<>>
    /\ last_batch_time' = now
    /\ pc' = "consuming"
    /\ UNCHANGED <<attempt, position, committed, cur, now, table, calls, sigs, sigpc,
                   cause, exitCode, closed>>
    /\ UNCHANGED config_vars
    /\ UNCHANGED norm_vars
    /\ UNCHANGED cli_vars

(* line 196 *)
Finally ==
    /\ pc = "finally"
    /\ pc' = IF has_remaining(batch) THEN "drain" ELSE "close"
    /\ UNCHANGED <<attempt, position, committed, cur, batch, last_batch_time, now, table,
                   calls, sigs, sigpc, cause, exitCode, closed>>
    /\ UNCHANGED config_vars
    /\ UNCHANGED norm_vars
    /\ UNCHANGED cli_vars

(* line 198: write_batch_to_delta(batch) inside finally; its exception      *)
(* leaves main, and the interpreter exits with status 1.                    *)
Drain ==
    /\ pc = "drain"
    /\ \E ok \in BOOLEAN :
         /\ table' = write_batch_to_delta(batch, ok)
         /\ calls' = Append(calls, Call(batch, ok, "finally"))
         /\ IF write_raises(batch, ok)
            THEN /\ pc' = "exited"
                 /\ exitCode' = 1
            ELSE /\ pc' = "close"
                 /\ UNCHANGED exitCode
    /\ UNCHANGED <<attempt, position, committed, cur, batch, last_batch_time, now, sigs,
                   sigpc, cause, closed>>
    /\ UNCHANGED config_vars
    /\ UNCHANGED norm_vars
    /\ UNCHANGED cli_vars

(* lines 200-202: consumer.close() of an auto-committing consumer commits   *)
(* its position; main then returns and the process exits with status 0.     *)
Close ==
    /\ pc = "close"
    /\ committed' = position
    /\ closed' = TRUE
    /\ pc' = "exited"
    /\ exitCode' = 0
    /\ UNCHANGED <<attempt, position, cur, batch, last_batch_time, now, table, calls,
                   sigs, sigpc, cause>>
    /\ UNCHANGED config_vars
    /\ UNCHANGED norm_vars
    /\ UNCHANGED cli_vars

(* SIGINT: KeyboardInterrupt is raised at the statement main is at.  Inside *)
(* the try block it is caught at line 190; in wait_for_kafka, in the        *)
(* constructor and inside the finally block nothing catches it.             *)
Signal ==
    /\ pc \in Running
    /\ sigs < MaxSignals
    /\ sigs' = sigs + 1
    /\ sigpc' = IF sigs = 0 THEN pc ELSE sigpc
    /\ IF pc \in InTry
       THEN /\ cause' = "signal"
            /\ pc' = "finally"
            /\ UNCHANGED exitCode
       ELSE /\ pc' = "exited"
            /\ exitCode' = 130
            /\ UNCHANGED cause
    /\ attempt' = 0
    /\ UNCHANGED <<position, committed, cur, batch, last_batch_time, now, table,
                   calls, closed>>
    /\ UNCHANGED config_vars
    /\ UNCHANGED norm_vars
    /\ UNCHANGED cli_vars

(* SIGINT while parse_event is inside its inner try (lines 74-77, entered   *)
(* for a truthy timestamp): the bare `except:` of line 78 catches the       *)
(* KeyboardInterrupt, the timestamp becomes utcnow() and parse_event goes   *)
(* on; the shutdown request is lost and the event is appended (line 179).   *)
SignalSwallowed ==
    /\ pc = "parse"
    /\ sigs < MaxSignals
    /\ MessageValue(topic[cur]).kind = "object"
    /\ Truthy(MessageValue(topic[cur]).obj["timestamp"])
    /\ sigs' = sigs + 1
    /\ sigpc' = IF sigs = 0 THEN pc ELSE sigpc
    /\ batch' = Append(batch, cur)
    /\ pc' = "check"
    /\ UNCHANGED <<attempt, position, committed, cur, last_batch_time, now, table, calls,
                   cause, exitCode, closed>>
    /\ UNCHANGED config_vars
    /\ UNCHANGED norm_vars
    /\ UNCHANGED cli_vars

(* time passes where main blocks: in the iterator and in the table write *)
Tick ==
    /\ pc \in {"consuming", "flush", "drain"}
    /\ now < MaxTime
    /\ now' = now + 1
    /\ UNCHANGED <<pc, attempt, position, committed, cur, batch, last_batch_time, table,
                   calls, sigs, sigpc, cause, exitCode, closed>>
    /\ UNCHANGED config_vars
    /\ UNCHANGED norm_vars
    /\ UNCHANGED cli_vars

(* the process is killed: its memory is gone, broker and table remain *)
Crash ==
    /\ pc \in Running
    /\ pc' = "crashed"
    /\ attempt' = 0
    /\ position' = 0
    /\ cur' = 0
    /\ batch' = <<>>
    /\ last_batch_time' = 0
    /\ calls' = <<>>
    /\ sigs' = 0
    /\ sigpc' = "none"
    /\ cause' = "none"
    /\ closed' = FALSE
    /\ exitCode' = 137
    /\ UNCHANGED <<committed, now, table>>
    /\ UNCHANGED config_vars
    /\ UNCHANGED norm_vars
    /\ UNCHANGED cli_vars

(* the killed process is started again: main() from its first line *)
Restart ==
    /\ pc = "crashed"
    /\ restarts < MaxRestarts
    /\ restarts' = restarts + 1
    /\ pc' = "connecting"
    /\ attempt' = 0
    /\ exitCode' = -1
    /\ UNCHANGED <<position, cur, batch, last_batch_time, calls, sigs, sigpc, cause,
                   closed>>
    /\ UNCHANGED <<committed, now, table, topic, BATCH_SIZE, BATCH_TIMEOUT_SECONDS>>
    /\ UNCHANGED norm_vars
    /\ UNCHANGED cli_vars

Next ==
    \/ ConnectAttempt
    \/ CreateConsumer
    \/ Fetch
    \/ AutoCommit
    \/ IteratorError
    \/ Parse
    \/ Check
    \/ Flush
    \/ Reset
    \/ Finally
    \/ Drain
    \/ Close
    \/ Signal
    \/ SignalSwallowed
    \/ Tick

(* one run of the process, from an empty table and an uncommitted group *)
Spec == Init /\ [][Next]_vars

NextRestart ==
    \/ Next
    \/ Crash
    \/ Restart

(* runs of the process with kills and restarts *)
SpecRestart == Init /\ [][NextRestart]_vars

----------------------------------------------------------------------------
(* The normalizer alone: parse_event applied to one raw message *)

FieldVals(f) ==
    CASE f = "timestamp" ->
           {Null, Str(<<>>), Str(<<"2024-12-31T10:00:00", "Z">>),
            Str(<<"2024-12-31T10:00:00", "+02:00">>), Str(<<"2024-12-31T10:00:00">>),
            Str(<<"2024-12-31">>), Str(<<"not-a-date">>), Num(<<"1735639200">>),
            Num(<<"0">>), List(<<"x">>)}
      [] f = "interaction_value" ->
           {Null, Num(<<"100">>), Str(<<"12">>), Str(<<"abc">>)}
      [] f = "metadata" ->
           {Null, Dict(<<>>), Dict(<<"page">>), List(<<"a">>), Str(<<"{", "page", "}">>),
            Num(<<"5">>), Bool(<<"true">>)}
      [] OTHER -> {Null, Str(<<>>), Str(<<"x">>)}

(* the objects obtained from those of S by setting at most one more key *)
OneMoreField(S) ==
    S \cup {[o EXCEPT ![f] = v] : <<o, f, v>> \in
               {<<o, f, v>> \in S \X Fields \X UNION {FieldVals(g) : g \in Fields} :
                    o[f] = Absent /\ v \in FieldVals(f)}}

RECURSIVE ObjectsUpTo(_)
ObjectsUpTo(n) == IF n = 0 THEN {EmptyObj} ELSE OneMoreField(ObjectsUpTo(n - 1))

NormInputs ==
    {Raw("object", o) : o \in ObjectsUpTo(MaxFields)}
      \cup {Raw(k, EmptyObj) : k \in RawKinds \ {"object"}}

NormInit ==
    /\ pc = "norm_call"
    /\ norm_in \in NormInputs
    /\ norm_out = <<>>
    /\ norm_again = <<>>
    /\ df_value = <<>>
    /\ cli_args = <<>>
    /\ cli_rc = -1
    /\ cli_ret = "none"
    /\ cli_exit = -1
    /\ now \in 0..MaxTime
    /\ attempt = 0
    /\ topic = <<>>
    /\ position = 0
    /\ committed = 0
    /\ cur = 0
    /\ batch = <<>>
    /\ last_batch_time = 0
    /\ BATCH_SIZE = 1
    /\ BATCH_TIMEOUT_SECONDS = 1
    /\ table = <<>>
    /\ calls = <<>>
    /\ sigs = 0
    /\ sigpc = "none"
    /\ cause = "none"
    /\ exitCode = -1
    /\ closed = FALSE
    /\ restarts = 0

(* event = parse_event(message) *)
Normalize ==
    /\ pc = "norm_call"
    /\ norm_out' = parse_event(norm_in, now)
    /\ pc' = "norm_done"
    /\ UNCHANGED <<attempt, topic, position, committed, cur, batch, last_batch_time, now,
                   BATCH_SIZE, BATCH_TIMEOUT_SECONDS, table, calls, sigs, sigpc, cause,
                   exitCode, closed, restarts, norm_in, norm_again, df_value>>
    /\ UNCHANGED cli_vars

(* json.loads(json.dumps(event).encode().decode()): the record as the value *)
(* of a message; strings, numbers and None come back as they were           *)
AsMessage(ev) == Raw("object", [f \in Fields |-> ev[f]])

(* parse_event applied to a record it returned, at the same or a later time *)
Renormalize ==
    /\ pc = "norm_done"
    /\ is_event(norm_out)
    /\ \E clock \in now..MaxTime :
         /\ norm_again' = parse_event(AsMessage(norm_out.ev), clock)
         /\ now' = clock
    /\ pc' = "norm_again"
    /\ UNCHANGED <<attempt, topic, position, committed, cur, batch, last_batch_time,
                   BATCH_SIZE, BATCH_TIMEOUT_SECONDS, table, calls, sigs, sigpc, cause,
                   exitCode, closed, restarts>>
    /\ UNCHANGED <<norm_in, norm_out, df_value>>
    /\ UNCHANGED cli_vars

(* texts float() accepts *)
NumberTokens == {"12", "100"}

(* pd.to_numeric(column, errors=errors), for one value of the column: a     *)
(* number stays, a text is parsed, None is NaN; a text that is no number    *)
(* is NaN under 'coerce' and a ValueError under 'raise'.  NaN is written    *)
(* to the table as null.                                                    *)
convert_numeric(x, errors) ==
    CASE x.t = "num" -> [raised |-> FALSE, value |-> x]
      [] x.t = "str" /\ Len(x.v) = 1 /\ x.v[1] \in NumberTokens
           -> [raised |-> FALSE, value |-> Num(x.v)]
      [] x.t \in {"null", "absent"} -> [raised |-> FALSE, value |-> Null]
      [] OTHER -> [raised |-> errors # "coerce", value |-> Null]

(* line 123 with errors='raise' *)
to_numeric_raise(x) == convert_numeric(x, "raise")

(* line 123 *)
to_numeric(x) == convert_numeric(x, "coerce")

(* write_batch_to_delta, lines 119-123, on the batch of the one record      *)
(* norm_out: the interaction_value column after the conversion, or the      *)
(* exception that sends the call to line 139                                *)
ToFrame ==
    /\ pc = "norm_done"
    /\ is_event(norm_out)
    /\ LET column == to_numeric(norm_out.ev["interaction_value"]) IN
         IF column.raised
         THEN /\ pc' = "df_error"
              /\ UNCHANGED df_value
         ELSE /\ pc' = "df_typed"
              /\ df_value' = column.value
    /\ UNCHANGED <<attempt, topic, position, committed, cur, batch, last_batch_time, now,
                   BATCH_SIZE, BATCH_TIMEOUT_SECONDS, table, calls, sigs, sigpc, cause,
                   exitCode, closed, restarts>>
    /\ UNCHANGED <<norm_in, norm_out, norm_again>>
    /\ UNCHANGED cli_vars

NextNorm == Normalize \/ Renormalize \/ ToFrame

SpecNorm == NormInit /\ [][NextNorm]_vars

----------------------------------------------------------------------------
(* The CLI: DockerManager (src/cli/docker_manager.py) and the commands of   *)
(* src/cli/main.py that call it                                             *)

ServiceNames == {"kafka", "delta-writer", "grafana"}

(* the values of the --services option: lists without repetition *)
ServiceLists ==
    {l \in UNION {[1..n -> ServiceNames] : n \in 0..MaxServices} :
        \A i, j \in 1..Len(l) : i # j => l[i] # l[j]}

(* exit statuses of `docker compose`; "oserror": subprocess.run could not   *)
(* start the command (no docker binary) and raised FileNotFoundError        *)
ComposeOutcomes == {"0", "1", "125", "oserror"}

ReturnCode(outcome) ==
    CASE outcome = "0" -> 0
      [] outcome = "1" -> 1
      [] outcome = "125" -> 125
      [] OTHER -> -1

(* _run_compose_command(args), lines 35-46: subprocess.run without check,   *)
(* so a non-zero exit status raises nothing; what the call raises           *)
run_compose_raises(outcome) ==
    IF outcome = "oserror" THEN "FileNotFoundError" ELSE "nothing"

(* the try/except of up, down and restart, lines 64-69, 85-90, 104-109 *)
method_result(raised) ==
    CASE raised = "nothing" -> "True"
      [] raised = "CalledProcessError" -> "False"
      [] OTHER -> "raised"

(* a DockerManager method from its argument list to its return *)
ComposeCall(args) ==
    /\ pc = "cli_start"
    /\ \E outcome \in ComposeOutcomes :
         /\ cli_rc' = ReturnCode(outcome)
         /\ cli_ret' = method_result(run_compose_raises(outcome))
    /\ cli_args' = args
    /\ pc' = "cli_returned"
    /\ UNCHANGED <<attempt, topic, position, committed, cur, batch, last_batch_time, now,
                   BATCH_SIZE, BATCH_TIMEOUT_SECONDS, table, calls, sigs, sigpc, cause,
                   exitCode, closed, restarts, cli_exit>>
    /\ UNCHANGED norm_vars

(* DockerManager.up(detached, services), lines 48-69 *)
up ==
    \E detached \in BOOLEAN, services \in ServiceLists :
        ComposeCall(<<"up">> \o (IF detached THEN <<"-d">> ELSE <<>>) \o services)

(* DockerManager.down(volumes), lines 71-90 *)
down ==
    \E volumes \in BOOLEAN :
        ComposeCall(<<"down">> \o (IF volumes THEN <<"-v">> ELSE <<>>))

(* DockerManager.restart(services), lines 92-109 *)
restart ==
    \E services \in ServiceLists : ComposeCall(<<"restart">> \o services)

(* the commands up, down and restart of main.py after the DockerManager     *)
(* call: up exits 1 when the method returned False (lines 64-79); down and  *)
(* restart ignore what it returned; an exception is caught and exits 1.     *)
CliReport ==
    /\ pc = "cli_returned"
    /\ cli_exit' = IF cli_ret = "raised" THEN 1
                   ELSE IF cli_args[1] = "up" /\ cli_ret = "False" THEN 1
                   ELSE 0
    /\ pc' = "cli_exited"
    /\ UNCHANGED <<attempt, topic, position, committed, cur, batch, last_batch_time, now,
                   BATCH_SIZE, BATCH_TIMEOUT_SECONDS, table, calls, sigs, sigpc, cause,
                   exitCode, closed, restarts, cli_args, cli_rc, cli_ret>>
    /\ UNCHANGED norm_vars

CliInit ==
    /\ pc = "cli_start"
    /\ cli_args = <<>>
    /\ cli_rc = -1
    /\ cli_ret = "none"
    /\ cli_exit = -1
    /\ norm_in = <<>>
    /\ norm_out = <<>>
    /\ norm_again = <<>>
    /\ df_value = <<>>
    /\ now = 0
    /\ attempt = 0
    /\ topic = <<>>
    /\ position = 0
    /\ committed = 0
    /\ cur = 0
    /\ batch = <<>>
    /\ last_batch_time = 0
    /\ BATCH_SIZE = 1
    /\ BATCH_TIMEOUT_SECONDS = 1
    /\ table = <<>>
    /\ calls = <<>>
    /\ sigs = 0
    /\ sigpc = "none"
    /\ cause = "none"
    /\ exitCode = -1
    /\ closed = FALSE
    /\ restarts = 0

NextCli == up \/ down \/ restart \/ CliReport

SpecCli == CliInit /\ [][NextCli]_vars


----------------------------------------------------------------------------
(* Properties *)

(* message i of the topic normalizes: parse_event returns an event for it *)
Accepts(i) == is_event(parse_event(MessageValue(topic[i]), 0))

RECURSIVE Flat(_)
Flat(batches) ==
    IF batches = <<>> THEN <<>> ELSE Head(batches) \o Flat(Tail(batches))

(* how many times message i has been appended to the table *)
TableCount(i) == Cardinality({j \in 1..Len(Flat(table)) : Flat(table)[j] = i})

InTable(i) == TableCount(i) >= 1

Offsets(n) == [i \in 1..n |-> i]

(* the accepted messages among the first n consumed, in consumption order *)
AcceptedUpTo(n) == SelectSeq(Offsets(n), Accepts)

IsPrefix(s, t) == Len(s) <= Len(t) /\ SubSeq(t, 1, Len(s)) = s

AtFinally(c) == c.at = "finally"
AtLoop(c) == c.at = "loop"

(* C1: while main is in its consume loop, every message the committed       *)
(* offset covers is rejected by the normalizer or already appended to the   *)
(* table.                                                                   *)
C1_CommitOnlyAfterAppend ==
    pc \in InTry => \A i \in 1..committed : Accepts(i) => InTable(i)

(* C2: at-least-once across kills and restarts: once a restarted process    *)
(* has caught up with the topic and buffers nothing, every message that     *)
(* normalizes is in the table.                                              *)
C2_NoEventLost ==
    (restarts >= 1 /\ pc = "consuming" /\ position = Len(topic) /\ batch = <<>>)
        => \A i \in 1..Len(topic) : Accepts(i) => InTable(i)

(* C3: right after a successful append of the loop, the committed offset    *)
(* is the offset of the last record of that append.                         *)
C3_CommitMatchesAppend ==
    pc = "flushed" => committed = batch[Len(batch)]

(* C4: Scenario D: when two consecutive appends of the same batch have      *)
(* failed, the process does not end before a third attempt with that batch  *)
(* has been made, and a successful third attempt leaves the batch in the    *)
(* table exactly once.                                                      *)
C4_ThirdAttempt ==
    \A k \in 1..(Len(calls) - 1) :
        (pc = "exited" /\ ~calls[k].ok /\ ~calls[k + 1].ok
            /\ calls[k].batch = calls[k + 1].batch)
        => /\ k + 2 <= Len(calls)
           /\ calls[k + 2].batch = calls[k].batch
           /\ calls[k + 2].ok => \A j \in 1..Len(calls[k].batch) :
                                     TableCount(calls[k].batch[j]) = 1

(* C5: when the last permitted append of a batch has failed, the process    *)
(* ends with a non-zero exit status and no record of that batch is covered  *)
(* by the committed offset.                                                 *)
C5_FailureIsLoudAndKeepsPosition ==
    (pc = "exited" /\ calls # <<>> /\ ~calls[Len(calls)].ok)
        => /\ exitCode # 0
           /\ \A j \in 1..Len(batch) : batch[j] > committed

(* the exit-status half of C5 alone *)
FailureIsLoud ==
    (pc = "exited" /\ calls # <<>> /\ ~calls[Len(calls)].ok) => exitCode # 0

(* C6: with no further message to come, buffered records do not stay in     *)
(* the buffer beyond the maximum batch age.                                 *)
C6_AgeFlushWithoutTraffic ==
    (pc = "consuming" /\ position = Len(topic) /\ batch # <<>>)
        => now - last_batch_time <= BATCH_TIMEOUT_SECONDS

(* C7: with BATCH_SIZE >= 1 the buffer and every batch handed to the table  *)
(* writer hold at most BATCH_SIZE records, the loop never waits for the     *)
(* next message with a full buffer, and a flush before the age threshold    *)
(* carries exactly BATCH_SIZE records.                                      *)
C7_SizeTrigger ==
    BATCH_SIZE >= 1 =>
        /\ Len(batch) <= BATCH_SIZE
        /\ \A k \in 1..Len(calls) : Len(calls[k].batch) <= BATCH_SIZE
        /\ \A k \in 1..Len(table) : Len(table[k]) <= BATCH_SIZE
        /\ pc \in {"consuming", "parse"} => Len(batch) < BATCH_SIZE
        /\ (pc \in {"flush", "flushed"} /\ ~batch_timeout(now)) => Len(batch) = BATCH_SIZE

C7_Witness ==
    /\ pc = "flushed"
    /\ BATCH_SIZE = 2
    /\ ~batch_timeout(now)
    /\ calls = <<Call(<<1, 2>>, TRUE, "loop")>>
    /\ table = <<batch>>

(* C8: within a run, the appended batches taken in append order are a       *)
(* gap-free prefix of the accepted messages in consumption order.           *)
C8_OrderPreserved ==
    IsPrefix(Flat(table), AcceptedUpTo(position))

C10_StringFieldsNonNull ==
    (pc = "norm_done" /\ is_event(norm_out))
        => \A f \in string_fields : norm_out.ev[f].t \notin {"null", "absent"}

(* C11: a malformed message is never fatal.  parse_event returns None for   *)
(* every raw message that is no JSON object (undecodable bytes, invalid     *)
(* JSON, an array, number, string, boolean or null), and the step of the    *)
(* loop that handles such a message drops it: the batch, the table and the  *)
(* exit code stay as they are, the position stays behind the message (it is *)
(* not fetched again) and the loop is back at the iterator.                 *)
C11_MalformedNeverFatal ==
    /\ [](\A k \in RawKinds \ {"object"} : ~is_event(parse_event(Raw(k, EmptyObj), now)))
    /\ [][(pc = "parse" /\ MessageValue(topic[cur]).kind # "object" /\ sigs' = sigs)
            => /\ pc' = "consuming"
               /\ batch' = batch
               /\ table' = table
               /\ calls' = calls
               /\ position' = position /\ position = cur
               /\ exitCode' = exitCode]_vars

(* the message after a dropped one is being handled, nothing was buffered *)
C11_Witness ==
    /\ pc = "parse"
    /\ cur = 2
    /\ MessageValue(topic[1]).kind # "object"
    /\ batch = <<>>
    /\ sigs = 0

(* C12: normalization is idempotent.  Normalizing a record the normalizer   *)
(* returned, read back as a message, returns a record equal to it in every  *)
(* field, metadata and timestamp included.                                  *)
C12_Idempotent ==
    pc = "norm_again" => norm_again = norm_out

(* C13: when wait_for_kafka has failed after all its attempts, the process  *)
(* ends without having consumed a message or called an append, and with a   *)
(* non-zero exit code.                                                      *)
C13_UnavailableFails ==
    (pc = "exited" /\ cause = "unavailable")
        => /\ position = 0
           /\ calls = <<>>
           /\ table = <<>>
           /\ exitCode # 0

(* C14: wait_for_kafka terminates.  Its attempts are numbered 0 to          *)
(* max_retries - 1; an attempt that connects returns at once (main goes on  *)
(* to create its consumer), a failed one is followed by the next number,    *)
(* and False is returned by the failed attempt number max_retries - 1 and   *)
(* by no other, that is after exactly max_retries failed attempts.          *)
C14_WaitTerminates ==
    /\ [](pc = "connecting" => attempt \in 0..(max_retries - 1))
    /\ [][(pc = "connecting" /\ sigs' = sigs)
            => \/ pc' = "create_consumer" /\ cause' = cause
               \/ pc' = "connecting" /\ attempt' = attempt + 1 /\ cause' = cause
               \/ pc' = "exited" /\ cause' = "unavailable"
                                 /\ attempt = max_retries - 1]_vars

(* wait_for_kafka has returned False *)
C14_Witness ==
    /\ pc = "exited"
    /\ cause = "unavailable"
    /\ sigs = 0

(* C15: a shutdown signal (SIGINT) arriving while the process connects or   *)
(* sleeps between connection attempts, waits for the next message or        *)
(* flushes is a clean shutdown: the process ends with the consumer closed   *)
(* and exit code zero.                                                      *)
C15_SignalIsCleanShutdown ==
    (pc = "exited" /\ sigs >= 1 /\ sigpc \in {"connecting", "consuming", "flush"})
        => /\ exitCode = 0
           /\ closed

(* C16: the drain is best-effort.  When the append made in the finally      *)
(* block has failed, the process still ends with the consumer closed and    *)
(* exit code zero, and that append was made once.                           *)
C16_DrainBestEffort ==
    (pc = "exited" /\ \E i \in 1..Len(calls) : AtFinally(calls[i]) /\ ~calls[i].ok)
        => /\ closed
           /\ exitCode = 0
           /\ Cardinality({i \in 1..Len(calls) : AtFinally(calls[i])}) = 1

(* the ISO-8601 texts among the timestamps of FieldVals *)
ParseableTs ==
    {Str(<<"2024-12-31T10:00:00", "Z">>), Str(<<"2024-12-31T10:00:00", "+02:00">>),
     Str(<<"2024-12-31T10:00:00">>), Str(<<"2024-12-31">>)}

(* the instant an ISO-8601 text denotes: its local date-time (a date alone  *)
(* is its midnight) and its UTC offset ("Z" is +00:00, "naive" without one) *)
Instant(s) ==
    LET last == s[Len(s)]
        zoned == last \in OffsetTokens \cup {"Z"}
        body == IF zoned THEN SubSeq(s, 1, Len(s) - 1) ELSE s
    IN [local |-> IF Len(body) = 1 /\ body[1] \in DateTokens
                  THEN <<body[1], "T00:00:00">> ELSE body,
        offset |-> IF ~zoned THEN "naive" ELSE IF last = "Z" THEN "+00:00" ELSE last]

(* C17: timestamp fallback.  A message that is a JSON object is not         *)
(* rejected whatever its timestamp is, and the timestamp of the record is   *)
(* a text fromisoformat accepts: the reading of the clock at the call (not  *)
(* before the start of the process, time 0) when the input timestamp is     *)
(* absent, null, empty, not a string or not ISO-8601, and the instant of    *)
(* the input, "Z" read as UTC, when it is ISO-8601.                         *)
C17_TimestampFallback ==
    (pc = "norm_done" /\ norm_in.kind = "object")
        => LET ts_in == norm_in.obj["timestamp"]
               ts_out == norm_out.ev["timestamp"]
           IN /\ is_event(norm_out)
              /\ ts_out.t = "str"
              /\ IsIso(ts_out.v)
              /\ ts_in \notin ParseableTs
                    => /\ ts_out.v = UtcNowIso(now)
                       /\ now >= 0
              /\ ts_in \in ParseableTs => Instant(ts_out.v) = Instant(ts_in.v)

(* a timestamp with "Z" was normalized to the same date-time at +00:00 *)
C17_Witness ==
    /\ pc = "norm_done"
    /\ norm_in.kind = "object"
    /\ norm_in.obj["timestamp"] = Str(<<"2024-12-31T10:00:00", "Z">>)
    /\ norm_out.ev["timestamp"] = Str(<<"2024-12-31T10:00:00", "+00:00">>)

(* C18: for a message that is a JSON object, channel and event_type are     *)
(* "unknown" in the record when they are absent or null in the input, and   *)
(* each of the other string fields is "" when absent or null in the input.  *)
C18_DefaultsForAbsentOrNull ==
    (pc = "norm_done" /\ norm_in.kind = "object")
        => \A f \in string_fields :
              norm_in.obj[f].t \in {"absent", "null"}
                 => norm_out.ev[f] = IF f \in {"channel", "event_type"}
                                     THEN Str(<<"unknown">>) ELSE Str(<<>>)

(* C19: for a message that is a JSON object, the metadata of the record is  *)
(* text: the serialization of the input metadata when that is an object or  *)
(* an array, and "{}" when it is absent, null, a string, a number or a      *)
(* boolean.                                                                 *)
C19_MetadataIsText ==
    (pc = "norm_done" /\ norm_in.kind = "object")
        => LET m_in == norm_in.obj["metadata"]
               m_out == norm_out.ev["metadata"]
           IN /\ is_event(norm_out)
              /\ m_out.t = "str"
              /\ m_in.t \in {"dict", "list"} => m_out = Dumps(m_in)
              /\ m_in.t \notin {"dict", "list"} => m_out = Str(<<"{", "}">>)

(* an array was serialized *)
C19_Witness ==
    /\ pc = "norm_done"
    /\ norm_in.kind = "object"
    /\ norm_in.obj["metadata"] = List(<<"a">>)
    /\ norm_out.ev["metadata"] = Str(<<"[", "a", "]">>)

C21_ComposeFailureReported ==
    (pc \in {"cli_returned", "cli_exited"} /\ cli_rc >= 0)
        => /\ cli_ret = IF cli_rc = 0 THEN "True" ELSE "False"
           /\ (pc = "cli_exited" /\ cli_rc # 0) => cli_exit # 0

(* C22: a write retry keeps the stream alive.  When an append of the loop   *)
(* has failed and a later call with the same batch has succeeded, with no   *)
(* shutdown signal and messages left on the topic, the process is still in  *)
(* its consume loop.                                                        *)
C22_RetryKeepsStreamAlive ==
    (/\ sigs = 0
     /\ position < Len(topic)
     /\ \E i, j \in 1..Len(calls) :
           /\ i < j
           /\ AtLoop(calls[i]) /\ ~calls[i].ok
           /\ calls[j].ok /\ calls[j].batch = calls[i].batch)
        => pc \in InTry

(* C23: batch lifecycle.  The buffer is empty at startup; a step changes    *)
(* it only by appending one record at its end or by clearing it right       *)
(* after a successful append of exactly its contents; a failed call of      *)
(* write_batch_to_delta leaves it as it was.                                *)
C23_BatchLifecycle ==
    /\ [](pc \in {"connecting", "create_consumer"} => batch = <<>>)
    /\ [][batch' # batch
            => \/ Len(batch') = Len(batch) + 1 /\ SubSeq(batch', 1, Len(batch)) = batch
               \/ /\ batch' = <<>>
                  /\ calls # <<>>
                  /\ calls' = calls
                  /\ calls[Len(calls)].ok
                  /\ calls[Len(calls)].batch = batch]_vars
    /\ [][(Len(calls') = Len(calls) + 1 /\ ~calls'[Len(calls')].ok)
            => /\ batch' = batch
               /\ calls'[Len(calls')].batch = batch]_vars

(* a flush of two records has failed and both are still buffered *)
C23_Witness ==
    /\ pc = "finally"
    /\ Len(batch) = 2
    /\ calls = <<Call(batch, FALSE, "loop")>>

(* C24: flush decision on absorb.  Right after an event was appended to the *)
(* buffer a flush follows if and only if the buffer holds BATCH_SIZE        *)
(* records or more, or BATCH_TIMEOUT_SECONDS or more have passed since the  *)
(* last flush; either condition alone suffices.                             *)
C24_FlushDecision ==
    [][(pc = "check" /\ sigs' = sigs)
         => /\ pc' \in {"flush", "consuming"}
            /\ pc' = "flush" <=> (\/ Len(batch) >= BATCH_SIZE
                                  \/ now - last_batch_time >= BATCH_TIMEOUT_SECONDS)
            /\ batch' = batch]_vars

(* a flush decided by age alone, with the buffer two short of BATCH_SIZE *)
C24_Witness ==
    /\ pc = "flush"
    /\ Len(batch) = 1
    /\ BATCH_SIZE = 3
    /\ now - last_batch_time >= BATCH_TIMEOUT_SECONDS
    /\ sigs = 0

(* C25: an error raised in the consume loop (by the broker iterator or by   *)
(* the loop body) ends the process with a non-zero exit code.               *)
C25_LoopErrorFails ==
    (pc = "exited" /\ cause = "error") => exitCode # 0

(* the batches of the successful calls, in call order *)
OkBatches ==
    LET oks == SelectSeq(calls, LAMBDA c : c.ok)
    IN [k \in 1..Len(oks) |-> oks[k].batch]

(* C26: every call of write_batch_to_delta made by main carries a non-empty *)
(* batch and appends: the table after the calls is the sequence of the      *)
(* batches of the successful calls, none replaced or dropped; a call with   *)
(* an empty list leaves the table as it is.                                 *)
C26_AppendIsCumulative ==
    /\ \A i \in 1..Len(calls) : calls[i].batch # <<>>
    /\ table = OkBatches
    /\ \A ok \in BOOLEAN : write_batch_to_delta(<<>>, ok) = table

(* two successful calls, both batches in the table *)
C26_Witness ==
    /\ Len(calls) = 2
    /\ calls[1].ok /\ calls[2].ok
    /\ table = <<calls[1].batch, calls[2].batch>>
    /\ calls[1].batch # calls[2].batch

(* C27: once wait_for_kafka has succeeded the process consumes: no broker   *)
(* connection attempt made after it can end the process.                    *)
C27_ConsumesOnAcquiredConnection ==
    [][(pc = "create_consumer" /\ sigs' = sigs) => pc' = "consuming"]_vars

(* C28: in a run in which no append has failed, no message is appended to   *)
(* the table more than once, whenever the shutdown signal arrives.          *)
C28_AtMostOnce ==
    (\A i \in 1..Len(calls) : calls[i].ok)
        => \A m \in 1..Len(topic) : TableCount(m) <= 1

(* C29: however main has left its consume loop (shutdown signal or error,   *)
(* drain append failed or not), consumer.close() has been executed when     *)
(* the process has ended; runs interrupted inside the finally block are     *)
(* left aside.                                                              *)
C29_ConsumerAlwaysClosed ==
    (pc = "exited" /\ cause \in {"signal", "error"} /\ sigpc \in InTry \cup {"none"})
        => closed

(* C30: last_batch_time is set when the consumer is created and changes     *)
(* only in the step right after a successful append of the loop, to the     *)
(* time of that step; a rejected message changes neither it nor the table   *)
(* and leads to no flush decision, whatever the age of the batch.           *)
C30_ClockOnlyResetByFlush ==
    /\ [][last_batch_time' # last_batch_time
            => \/ pc = "create_consumer"
               \/ /\ pc = "flushed"
                  /\ calls # <<>>
                  /\ calls[Len(calls)].ok
                  /\ AtLoop(calls[Len(calls)])
                  /\ last_batch_time' = now]_vars
    /\ [][(pc = "parse" /\ MessageValue(topic[cur]).kind # "object" /\ sigs' = sigs)
            => /\ pc' = "consuming"
               /\ calls' = calls
               /\ table' = table
               /\ last_batch_time' = last_batch_time]_vars

(* a rejected message was handled with a buffered record past the age limit *)
C30_Witness ==
    /\ pc = "consuming"
    /\ cur = 2
    /\ position = 2
    /\ MessageValue(topic[2]).kind # "object"
    /\ batch = <<1>>
    /\ now - last_batch_time >= BATCH_TIMEOUT_SECONDS
    /\ calls = <<>>

====
